---- MODULE Spec2Model ----
(***************************************************************************)
(* Model of exa-cli (src/exa.js): the key manager (round-robin selection   *)
(* with cooldown and usage tracking, persisted in state.json), the         *)
(* response cache (one file per fingerprint, TTL on read, eviction on      *)
(* write) and the dispatcher main() that ties them together.               *)
(*                                                                         *)
(* Eight specifications share the operators below:                         *)
(*   Spec       sequential invocations of main()                           *)
(*   SpecStore  search / find over a cache directory that can fail         *)
(*   SpecSel    getNextKey called repeatedly on a drawn rotation state     *)
(*   SpecCache  cacheWrite / cacheRead on a store near its size cap        *)
(*   SpecConc   processes loading and saving state.json concurrently       *)
(*   SpecRace   processes reading and writing the cache directory at once  *)
(*   SpecKey    cache keys and upstream requests of two option sets        *)
(*   SpecLive   Spec's invocations from the default state, with fairness   *)
(***************************************************************************)
EXTENDS Integers, Sequences, FiniteSets, TLC

\* ------------------------------------------------------------------------
\* Program constants
\* ------------------------------------------------------------------------

\* const DEFAULT_COOLDOWN_MS = 60_000;
DEFAULT_COOLDOWN_MS == 60000

\* if (files.length > 50) files.slice(0, files.length - 50)...
MAX_CACHE_ENTRIES == 50

\* ttlMinutes * 60 * 1000
MS_PER_MINUTE == 60000

\* cacheTtl: 60 (parseArgs default)
DEFAULT_CACHE_TTL == 60

\* JavaScript null (cooldownUntil: null); timestamps are positive
null == -1

\* ------------------------------------------------------------------------
\* Bounds of the model
\* ------------------------------------------------------------------------

\* size of the largest credential pool
MaxKeys == 2

\* number of invocations of main() in one behaviour of Spec
MaxInv == 2

\* number of operations in one behaviour of SpecSel
MaxSelOps == 3

\* size of the largest credential pool of SpecSel
MaxSelKeys == 3

\* number of operations in one behaviour of SpecCache
MaxCacheOps == 3

\* fingerprints beyond the cap that SpecCache can write
ExtraFps == 2

\* entries short of the cap that a store of SpecCache can start with
MaxShort == 2

\* number of concurrent invocations of SpecConc
MaxProcs == 2

\* longest drawn option value of SpecKey, in characters
MaxFieldLen == 2

\* ------------------------------------------------------------------------
\* Key manager
\* ------------------------------------------------------------------------

\* String.prototype.trim over a sequence of characters
RECURSIVE Trim(_)
Trim(s) ==
  IF s = <<>> THEN s
  ELSE IF Head(s) = " " THEN Trim(Tail(s))
  ELSE IF s[Len(s)] = " " THEN Trim(SubSeq(s, 1, Len(s) - 1))
  ELSE s

\* s.split(","): the pieces between commas, the empty ones included
RECURSIVE Split(_, _)
Split(s, piece) ==
  IF s = <<>> THEN <<piece>>
  ELSE IF Head(s) = "," THEN <<piece>> \o Split(Tail(s), <<>>)
  ELSE Split(Tail(s), Append(piece, Head(s)))

\* .map(s => s.trim()).filter(Boolean)
RECURSIVE TrimAndFilter(_)
TrimAndFilter(pieces) ==
  IF pieces = <<>> THEN <<>>
  ELSE IF Trim(Head(pieces)) = <<>> THEN TrimAndFilter(Tail(pieces))
  ELSE <<Trim(Head(pieces))>> \o TrimAndFilter(Tail(pieces))

\* loadKeysFromEnv without .filter(Boolean)
loadKeysFromEnv_NoFilter(e) ==
  LET multi == Trim(e.EXA_API_KEYS)
      keys == Split(multi, <<>>)
      single == Trim(e.EXA_API_KEY)
  IN IF multi # <<>> /\ Len(keys) > 0 THEN keys
     ELSE IF single # <<>> THEN <<single>>
     ELSE <<>>

\* loadKeysFromEnv(): the keys array; <<>> stands for the null it returns
\* when neither variable holds a key (an unset variable reads as "")
loadKeysFromEnv(e) ==
  LET multi == Trim(e.EXA_API_KEYS)
      keys == TrimAndFilter(Split(multi, <<>>))
      single == Trim(e.EXA_API_KEY)
  IN IF multi # <<>> /\ Len(keys) > 0 THEN keys
     ELSE IF single # <<>> THEN <<single>>
     ELSE <<>>

\* EXA_API_KEYS naming n keys: "0, 1, ..."
RECURSIVE MultiOf(_)
MultiOf(n) ==
  IF n <= 0 THEN <<>>
  ELSE IF n = 1 THEN <<"0">>
  ELSE MultiOf(n - 1) \o <<",", " ", ToString(n - 1)>>

\* no variable set
NoEnv == [EXA_API_KEYS |-> <<>>, EXA_API_KEY |-> <<>>]

\* environments a process is started in: both variables unset or blank,
\* EXA_API_KEYS holding only separators, a single key, a list of keys
Envs ==
  {NoEnv,
   [EXA_API_KEYS |-> <<" ">>, EXA_API_KEY |-> <<" ">>],
   [EXA_API_KEYS |-> <<" ", ",", " ">>, EXA_API_KEY |-> <<>>],
   [EXA_API_KEYS |-> <<",">>, EXA_API_KEY |-> <<" ", "k", " ">>]}
  \cup {[EXA_API_KEYS |-> MultiOf(n), EXA_API_KEY |-> <<"k">>] : n \in 2 .. MaxKeys}

\* { valid: true, cooldownUntil: null, requests: 0, success: 0, errors: 0 }
DefaultRecord ==
  [valid |-> TRUE, cooldownUntil |-> null, requests |-> 0, success |-> 0, errors |-> 0]

\* keys: {}
EmptyKeys == [i \in {} |-> DefaultRecord]

\* the catch branch of loadKeyState (version and lastValidated are never read)
DefaultState == [currentIndex |-> 0, keys |-> EmptyKeys]

\* state.json: absent, text JSON.parse rejects, parseable JSON without a
\* keys member (e.g. "{}"), or the text saveKeyState wrote
FileAbsent == [kind |-> "absent"]
FileGarbage == [kind |-> "garbage"]
FileNoKeys == [kind |-> "nokeys"]

\* JSON.stringify(state, null, 2)
StringifyState(st) == [kind |-> "json", text |-> st]

\* JSON.parse(raw) for the files above; "{}" parses to an object that has
\* neither currentIndex nor keys
ParseState(file) ==
  IF file.kind = "json" THEN file.text ELSE [currentIndex |-> 0]

\* loadKeyState: readFileSync or JSON.parse throwing yields the default
loadKeyState(file) ==
  IF file.kind \in {"absent", "garbage"} THEN DefaultState ELSE ParseState(file)

\* saveKeyState: the file holds the serialized state
saveKeyState(st) == StringifyState(st)

\* state.keys is undefined: state.keys[i] throws a TypeError
HasKeys(st) == "keys" \in DOMAIN st

\* getNextKey, first loop: if (!state.keys[i]) state.keys[i] = {...}
EnsureEntries(n, st) ==
  [st EXCEPT !.keys =
     [i \in (DOMAIN st.keys) \cup (0 .. n - 1) |->
        IF i \in DOMAIN st.keys THEN st.keys[i] ELSE DefaultRecord]]

\* validIndices with the valid flag left unread
validIndices_FlagUnread(n, st) == 0 .. n - 1

\* if (state.keys[i].valid !== false) validIndices.push(i)
validIndices(n, st) == {i \in 0 .. n - 1 : st.keys[i].valid # FALSE}

\* available with the cooldown test left out
available_IgnoresCooldown(n, st, now) == validIndices(n, st)

\* validIndices.filter(i => !cd || now >= cd)
available(n, st, now) ==
  {i \in validIndices(n, st) :
     st.keys[i].cooldownUntil = null \/ now >= st.keys[i].cooldownUntil}

\* state.keys[i].cooldownUntil || 0
CdOrZero(st, i) ==
  IF st.keys[i].cooldownUntil = null THEN 0 ELSE st.keys[i].cooldownUntil

\* the reduce with cd <= bestCd: the last of equals wins
RECURSIVE ReduceSoonest_LastWins(_, _, _, _)
ReduceSoonest_LastWins(n, st, i, best) ==
  IF i >= n THEN best
  ELSE IF i \notin validIndices(n, st)
       THEN ReduceSoonest_LastWins(n, st, i + 1, best)
  ELSE IF best = null THEN ReduceSoonest_LastWins(n, st, i + 1, i)
  ELSE IF CdOrZero(st, i) <= CdOrZero(st, best)
       THEN ReduceSoonest_LastWins(n, st, i + 1, i)
  ELSE ReduceSoonest_LastWins(n, st, i + 1, best)

\* validIndices.reduce((best, i) => cd < bestCd ? i : best), in index order
RECURSIVE ReduceSoonest(_, _, _, _)
ReduceSoonest(n, st, i, best) ==
  IF i >= n THEN best
  ELSE IF i \notin validIndices(n, st) THEN ReduceSoonest(n, st, i + 1, best)
  ELSE IF best = null THEN ReduceSoonest(n, st, i + 1, i)
  ELSE IF CdOrZero(st, i) < CdOrZero(st, best) THEN ReduceSoonest(n, st, i + 1, i)
  ELSE ReduceSoonest(n, st, i + 1, best)

\* available[0]
FirstOf(S) == CHOOSE i \in S : \A j \in S : i <= j

\* the scan with usage <= bestUsage: the last of equals wins
RECURSIVE ScanLowestUsage_LastWins(_, _, _, _, _, _)
ScanLowestUsage_LastWins(n, st, avail, start, offset, best) ==
  IF offset >= n THEN best.idx
  ELSE LET idx == (start + offset) % n
           usage == st.keys[idx].requests
       IN IF idx \in avail /\ (best.inf \/ usage <= best.usage)
          THEN ScanLowestUsage_LastWins(n, st, avail, start, offset + 1,
                                        [idx |-> idx, usage |-> usage, inf |-> FALSE])
          ELSE ScanLowestUsage_LastWins(n, st, avail, start, offset + 1, best)

\* for (offset = 0; offset < keys.length; offset++) ... usage < bestUsage;
\* best.inf stands for bestUsage = Infinity
RECURSIVE ScanLowestUsage(_, _, _, _, _, _)
ScanLowestUsage(n, st, avail, start, offset, best) ==
  IF offset >= n THEN best.idx
  ELSE LET idx == (start + offset) % n
           usage == st.keys[idx].requests
       IN IF idx \in avail /\ (best.inf \/ usage < best.usage)
          THEN ScanLowestUsage(n, st, avail, start, offset + 1,
                               [idx |-> idx, usage |-> usage, inf |-> FALSE])
          ELSE ScanLowestUsage(n, st, avail, start, offset + 1, best)

\* the branch with the scan left out: bestIdx stays available[0]
PickAvailable_AlwaysFirst(n, st, now) == FirstOf(available(n, st, now))

\* the branch of getNextKey that picks among the available keys
PickAvailable(n, st, now) ==
  LET avail == available(n, st, now)
      start == st.currentIndex % n
  IN ScanLowestUsage(n, st, avail, start, 0,
                     [idx |-> FirstOf(avail), usage |-> 0, inf |-> TRUE])

\* getNextKey without the final state.currentIndex assignment
getNextKey_NoAdvance(n, st0, now) ==
  LET st == EnsureEntries(n, st0)
      selected == IF available(n, st, now) = {} THEN ReduceSoonest(n, st, 0, null)
                  ELSE PickAvailable(n, st, now)
  IN IF validIndices(n, st) = {} THEN [selected |-> null, state |-> st]
     ELSE [selected |-> selected, state |-> st]

\* getNextKey advancing currentIndex by one from where it stood
getNextKey_StepsFromCurrent(n, st0, now) ==
  LET st == EnsureEntries(n, st0)
      selected == IF available(n, st, now) = {} THEN ReduceSoonest(n, st, 0, null)
                  ELSE PickAvailable(n, st, now)
  IN IF validIndices(n, st) = {} THEN [selected |-> null, state |-> st]
     ELSE [selected |-> selected,
           state |-> [st EXCEPT !.currentIndex = (st.currentIndex + 1) % n]]

\* getNextKey(keys, state) with keys.length = n and Date.now() = now:
\* the index returned (null when no key is valid) and the state it leaves
getNextKey(n, st0, now) ==
  LET st == EnsureEntries(n, st0)
      valid == validIndices(n, st)
      avail == available(n, st, now)
      selected == IF avail = {} THEN ReduceSoonest(n, st, 0, null)
                  ELSE PickAvailable(n, st, now)
  IN IF valid = {} THEN [selected |-> null, state |-> st]
     ELSE [selected |-> selected,
           state |-> [st EXCEPT !.currentIndex = (selected + 1) % n]]

\* recordSuccess(state, idx)
recordSuccess(st, idx) ==
  IF idx \notin DOMAIN st.keys THEN st
  ELSE [st EXCEPT !.keys[idx].requests = @ + 1,
                  !.keys[idx].success = @ + 1,
                  !.keys[idx].cooldownUntil = null]

\* recordRateLimit(state, idx, retryAfterMs) at Date.now() = now; null
\* stands for an argument left out (undefined)
recordRateLimit(st, idx, retryAfterMs, now) ==
  IF idx \notin DOMAIN st.keys THEN st
  ELSE [st EXCEPT !.keys[idx].errors = @ + 1,
                  !.keys[idx].cooldownUntil =
                     now + (IF retryAfterMs = null \/ retryAfterMs = 0
                            THEN DEFAULT_COOLDOWN_MS ELSE retryAfterMs)]

\* the third argument of main's calls recordRateLimit(state, keyIdx) and
\* recordRateLimit(state, retryIdx): none
RetryAfterArg(resp) == null

\* ------------------------------------------------------------------------
\* Cache
\* ------------------------------------------------------------------------

\* parts.join("|") over fields that are sequences of characters
RECURSIVE JoinParts(_)
JoinParts(parts) ==
  IF Len(parts) = 0 THEN <<>>
  ELSE IF Len(parts) = 1 THEN parts[1]
  ELSE parts[1] \o <<"|">> \o JoinParts(Tail(parts))

\* cacheKey: the md5 digest of the joined text, taken as collision free, so
\* the digest is identified with the text that was hashed
cacheKey(parts) == JoinParts(parts)

\* what cacheRead returns for "return null"
MISS == [miss |-> TRUE]

\* the cache directory: fingerprint -> [data, mtime], one entry per file
EmptyCache == [k \in {} |-> [data |-> MISS, mtime |-> 0]]

\* cacheRead taking the TTL in seconds
cacheRead_TtlSeconds(store, key, ttlMinutes, now) ==
  IF key \notin DOMAIN store THEN MISS
  ELSE IF now - store[key].mtime > ttlMinutes * 1000 THEN MISS
  ELSE store[key].data

\* cacheRead expiring an entry whose age equals the TTL
cacheRead_ExpiresAtTtl(store, key, ttlMinutes, now) ==
  IF key \notin DOMAIN store THEN MISS
  ELSE IF now - store[key].mtime >= ttlMinutes * 60 * 1000 THEN MISS
  ELSE store[key].data

\* cacheRead(key, ttlMinutes) at Date.now() = now
cacheRead(store, key, ttlMinutes, now) ==
  IF key \notin DOMAIN store THEN MISS
  ELSE IF now - store[key].mtime > ttlMinutes * 60 * 1000 THEN MISS
  ELSE store[key].data

\* a cacheRead that unlinks the entry it finds expired
cacheReadLeaves_DropsExpired(store, key, ttlMinutes, now) ==
  IF key \in DOMAIN store /\ now - store[key].mtime > ttlMinutes * 60 * 1000
  THEN [f \in (DOMAIN store) \ {key} |-> store[f]]
  ELSE store

\* the cache directory after cacheRead: fs.statSync and fs.readFileSync are
\* its only file calls, so every entry and every mtime is as before
cacheReadLeaves(store, key, ttlMinutes, now) == store

\* fs.writeFileSync(file, data): create or overwrite, mtime = now
WriteFile(store, key, data, now) ==
  [k \in (DOMAIN store) \cup {key} |->
     IF k = key THEN [data |-> data, mtime |-> now] ELSE store[k]]

\* fs.unlinkSync
Unlink(store, key) == [k \in (DOMAIN store) \ {key} |-> store[k]]

\* files.sort(by mtime).slice(0, k).forEach(unlink): the k oldest entries go;
\* among entries of equal mtime the order is the directory listing's, which
\* the file system decides, so every choice is a possible outcome
RECURSIVE EvictOldest(_, _)
EvictOldest(store, k) ==
  IF k <= 0 \/ DOMAIN store = {} THEN {store}
  ELSE LET oldest == {f \in DOMAIN store :
                        \A g \in DOMAIN store : store[f].mtime <= store[g].mtime}
       IN UNION {EvictOldest(Unlink(store, f), k - 1) : f \in oldest}

\* cacheWrite evicting one entry fewer than the excess
cacheWrite_KeepsOneMore(store, key, data, now) ==
  LET written == WriteFile(store, key, data, now)
      count == Cardinality(DOMAIN written)
  IN EvictOldest(written, count - MAX_CACHE_ENTRIES - 1)

\* cacheWrite(key, data) at Date.now() = now: the possible resulting stores
cacheWrite(store, key, data, now) ==
  LET written == WriteFile(store, key, data, now)
      count == Cardinality(DOMAIN written)
  IN IF count > MAX_CACHE_ENTRIES
     THEN EvictOldest(written, count - MAX_CACHE_ENTRIES)
     ELSE {written}

\* ------------------------------------------------------------------------
\* Commands
\* ------------------------------------------------------------------------

\* opts.query after join(" "): empty when no positional argument was given
NoQuery == <<>>
Queries == {<<"a">>}

\* commands of main's switch that the model runs, "status", and "none" for
\* opts.command === null
Commands == {"search", "find", "answer", "status", "none"}

\* --cache-ttl <min>: parseInt(...) || 60
CacheTtls == {1, DEFAULT_CACHE_TTL}

\* the words parseArgs takes as opts.command
KnownCommands == {"search", "find", "content", "answer", "research", "status"}

\* parseArgs over positional words (none starts with "-"): the first known
\* command word becomes opts.command, every other word is pushed to
\* opts.query
RECURSIVE ParseWords(_, _, _)
ParseWords(args, command, words) ==
  IF args = <<>> THEN [command |-> command, words |-> words]
  ELSE IF command = "none" /\ Head(args) \in KnownCommands
       THEN ParseWords(Tail(args), Head(args), words)
       ELSE ParseWords(Tail(args), command, Append(words, Head(args)))

\* opts.query.join(" ")
RECURSIVE JoinWords(_)
JoinWords(words) ==
  IF words = <<>> THEN <<>>
  ELSE IF Len(words) = 1 THEN words
  ELSE <<Head(words), " ">> \o JoinWords(Tail(words))

\* parseArgs(args) for positional words, flags at their defaults
parseArgs(args) ==
  LET r == ParseWords(args, "none", <<>>)
  IN [command |-> r.command, query |-> JoinWords(r.words), json |-> FALSE,
      noCache |-> FALSE, cacheTtl |-> DEFAULT_CACHE_TTL]

\* the command line `exa reset` of the documentation's Key Management
ResetArgs == <<"reset">>

\* the parsed options the model varies; the others keep parseArgs' defaults.
\* Options a command never reads are left at their defaults.
OptsSet ==
  [command : {"search"}, query : Queries, json : BOOLEAN,
   noCache : {FALSE}, cacheTtl : CacheTtls]
  \cup [command : {"search"}, query : Queries, json : BOOLEAN,
        noCache : {TRUE}, cacheTtl : {DEFAULT_CACHE_TTL}]
  \cup [command : {"answer"}, query : Queries, json : BOOLEAN,
        noCache : {FALSE}, cacheTtl : {DEFAULT_CACHE_TTL}]
  \cup [command : {"search"}, query : {NoQuery}, json : {FALSE},
        noCache : {FALSE}, cacheTtl : {DEFAULT_CACHE_TTL}]
  \cup [command : {"status", "none"}, query : {NoQuery}, json : {FALSE},
        noCache : {FALSE}, cacheTtl : {DEFAULT_CACHE_TTL}]
  \cup {parseArgs(ResetArgs)}

\* null or undefined where a text can stand, and undefined where an object can
NoText == <<"null">>
Undefined == [undefined |-> TRUE]

\* parseArgs' defaults of the options that reach a cache key or an
\* upstream request
FlagDefaults ==
  [num |-> 5, type |-> "instant", content |-> FALSE, category |-> NoText,
   domain |-> NoText, after |-> NoText, before |-> NoText, maxAge |-> null,
   highlights |-> null, verbosity |-> NoText]

\* opts.x || "" for a text option
OrEmpty(v) == IF v = NoText THEN <<>> ELSE v

\* String(opts.x ?? "") for a numeric option, and String(opts.num); the
\* digits of a number are taken as one character
StringOf(v) == IF v = null THEN <<>> ELSE <<ToString(v)>>

\* the array search passes to cacheKey
SearchParts(r) ==
  << <<"search">>, r.query, StringOf(r.num), <<r.type>>, OrEmpty(r.category),
     OrEmpty(r.domain), OrEmpty(r.after), OrEmpty(r.before),
     StringOf(r.maxAge), StringOf(r.highlights), OrEmpty(r.verbosity) >>

\* the array findSimilar passes to cacheKey
FindParts(r) == << <<"find">>, r.query, StringOf(r.num), <<r.type>> >>

\* search: cacheKey(["search", query, String(num), type, category || "", ...])
\* for options whose flags are at their defaults
SearchKey(o) == cacheKey(SearchParts(o @@ FlagDefaults))

\* findSimilar: cacheKey(["find", opts.query, String(opts.num), opts.type])
FindKey(o) == cacheKey(FindParts(o @@ FlagDefaults))

\* `if (opts.x) obj.y = opts.x`: null and the empty text set nothing
IfGiven(v) == IF v \in {NoText, <<>>} THEN NoText ELSE v

\* buildContentsOpt(opts)
buildContentsOpt(r) ==
  IF r.highlights # null
  THEN [highlights |-> [maxCharacters |-> r.highlights], text |-> FALSE,
        verbosity |-> IfGiven(r.verbosity)]
  ELSE IF r.content
       THEN [highlights |-> Undefined, text |-> TRUE,
             verbosity |-> IfGiven(r.verbosity)]
       ELSE Undefined

\* what search sends: exa.search(opts.query, searchOpts)
SearchRequest(r) ==
  [endpoint |-> "search", query |-> r.query, numResults |-> r.num,
   type |-> r.type, contents |-> buildContentsOpt(r),
   includeDomains |-> IfGiven(r.domain),
   startPublishedDate |-> IfGiven(r.after),
   endPublishedDate |-> IfGiven(r.before), category |-> IfGiven(r.category),
   maxAgeHours |-> r.maxAge]

\* what findSimilar sends: exa.findSimilar(opts.query, {...})
FindRequest(r) ==
  [endpoint |-> "findSimilar", query |-> r.query, numResults |-> r.num,
   type |-> r.type, contents |-> buildContentsOpt(r)]

\* the fingerprint the command in o reads and writes
CommandKey(o) == IF o.command = "find" THEN FindKey(o) ELSE SearchKey(o)

\* bodies the upstream API answers with: no results, or some
NoResults == [results |-> <<>>]
SomeResults == [results |-> <<"r1">>]
Bodies == {NoResults, SomeResults}

\* the Retry-After of a 429 answer that carries one, in ms (half the
\* default window)
RetryAfterHint == 30000

\* what an awaited exa call settles to: a body, or an error with its status,
\* whether its message contains the text "429", and the Retry-After the
\* answer carried (null: none)
Responses ==
  [kind : {"ok"}, body : Bodies]
  \cup {[kind |-> "err", status |-> 429, text429 |-> TRUE, retryAfterMs |-> null],
        [kind |-> "err", status |-> 429, text429 |-> TRUE,
         retryAfterMs |-> RetryAfterHint],
        [kind |-> "err", status |-> 500, text429 |-> FALSE, retryAfterMs |-> null],
        [kind |-> "err", status |-> 500, text429 |-> TRUE, retryAfterMs |-> null]}

\* JSON.stringify(results) / JSON.parse(cached)
Stringify(v) == [json |-> v]
Parse(s) == s.json

\* an entry file whose text JSON.parse rejects
Undecodable == [garbage |-> TRUE]

\* whether JSON.parse(cached) returns
Decodable(s) == "json" \in DOMAIN s

\* errors thrown inside search: by fs.mkdirSync in cacheDir(), by
\* JSON.parse(cached); neither has a status, and their messages (an errno
\* text, a parse position) do not contain "429"
MkdirError ==
  [kind |-> "throw", status |-> 0, text429 |-> FALSE, retryAfterMs |-> null,
   by |-> "mkdirSync"]
SyntaxError ==
  [kind |-> "throw", status |-> 0, text429 |-> FALSE, retryAfterMs |-> null,
   by |-> "JSON.parse"]

\* printSearchResults (answer prints along the same three branches): what
\* is printed, and whether the function returns or calls process.exit(3)
printSearchResults(o, results) ==
  IF o.json THEN [out |-> <<"json", results>>, exit |-> "return"]
  ELSE IF Len(results.results) = 0
       THEN [out |-> <<"stderr", "No results found.">>, exit |-> "3"]
       ELSE [out |-> <<"text", results.results>>, exit |-> "return"]

\* err.status === 429 || err.message.includes("429")
IsRateLimit(resp) == resp.kind = "err" /\ (resp.status = 429 \/ resp.text429)

\* the catch block's report: console.log/error of err.message
ErrorOutput(resp) == <<"error", resp>>

\* the retry condition without retryIdx !== keyIdx
ShouldRetry_SameKey(n, retry, idx) == n > 1 /\ retry # null

\* if (keys.length > 1) { retryIdx = getNextKey(...);
\*   if (retryIdx !== null && retryIdx !== keyIdx) { ... } }
ShouldRetry(n, retry, idx) == n > 1 /\ retry # null /\ retry # idx

\* ------------------------------------------------------------------------
\* State
\* ------------------------------------------------------------------------

VARIABLES
  nkeys,      \* keys.length of loadKeysFromEnv (0: no key configured)
  env,        \* process.env: EXA_API_KEYS and EXA_API_KEY
  startCache, \* the cache directory as the invocation found it
  fault,      \* condition of the cache directory: "none", "mkdir" (creating it
              \* throws), "io" (it exists; stat, read and write in it throw)
  disk,       \* contents of state.json
  cache,      \* the cache directory
  now,        \* Date.now()
  state,      \* the process's in-memory rotation state
  pc,         \* "idle", or the await main is suspended at: "call1" / "call2"
  opts,       \* parsed options of the current (or last) invocation
  keyIdx,     \* main's keyIdx
  retryIdx,   \* main's retryIdx
  calls,      \* upstream calls of the invocation: <<[idx, out, resp, keys, at]>>,
              \* keys being state.keys when the call settled, at the time
  output,     \* what the invocation printed
  exitCode,   \* "none" while running; "0".."3"; "crash" for an uncaught throw
  inv,        \* invocations started
  startFile,  \* state.json as the invocation found it
  loaded,     \* what loadKeyState returned to the invocation
  lookup,     \* whether the invocation started with an unexpired entry for its search
  origin,     \* per cache entry: options and output of the invocation that wrote it
  selLog,     \* the last getNextKey call: state before, clock, index returned
  run,        \* SpecSel: indices returned by the getNextKey calls so far
  runStart,   \* SpecSel: state and clock at the first getNextKey call
  ops,        \* SpecSel / SpecCache: operations applied
  last,       \* SpecSel / SpecCache: the last operation and its result
  procs,      \* SpecConc / SpecRace: per process, its position and what it holds
  saved,      \* SpecConc: the states whose text a saveKeyState has written
  pair        \* SpecKey: the options of the two invocations compared

vars ==
  <<nkeys, env, startCache, fault, disk, cache, now, state, pc, opts, keyIdx, retryIdx, calls, output,
    exitCode, inv, startFile, loaded, lookup, origin, selLog, run, runStart,
    ops, last, procs, saved, pair>>

\* variables of SpecSel, SpecCache and SpecConc that Spec leaves alone
auxVars == <<run, runStart, ops, last, procs, saved, pair>>

\* no concurrent process
NoProcs == <<>>

\* variables of Spec that SpecSel and SpecCache leave alone
mainVars ==
  <<env, startCache, fault, disk, pc, opts, keyIdx, retryIdx, calls, output, exitCode, inv, startFile,
    loaded, lookup, origin, selLog>>

\* no invocations to compare
NoPair == <<>>

\* variables of SpecConc and SpecKey that the other specifications leave alone
concVars == <<procs, saved, pair>>

NoOpts ==
  [command |-> "status", query |-> NoQuery, json |-> FALSE, noCache |-> FALSE,
   cacheTtl |-> DEFAULT_CACHE_TTL]

NoSel == [n |-> 0, pre |-> DefaultState, now |-> 0, selected |-> null]

NoLast == [op |-> "none"]

\* ------------------------------------------------------------------------
\* Spec: sequential invocations of main()
\* ------------------------------------------------------------------------

\* time that passes before a process reaches main (a new process never
\* starts in the millisecond the previous one ended)
StartDelays == {1, DEFAULT_COOLDOWN_MS}

\* time an awaited upstream call takes
CallDelays == {1}

\* a state.json whose records for the indices in S carry valid: false (the
\* flag getNextKey and printKeyStatus test; written by hand or by another
\* release sharing the file)
SeededFile(n, S) ==
  saveKeyState([currentIndex |-> 0,
                keys |-> [i \in 0 .. n - 1 |->
                            [DefaultRecord EXCEPT !.valid = (i \notin S)]]])

Init ==
  /\ env \in Envs
  /\ nkeys = Len(loadKeysFromEnv(env))
  /\ disk \in {FileAbsent} \cup
              {SeededFile(nkeys, S) : S \in (SUBSET (0 .. nkeys - 1)) \ {{}}}
  /\ cache = EmptyCache
  /\ startCache = cache
  /\ fault = "none"
  /\ now = 1
  /\ state = DefaultState
  /\ pc = "idle"
  /\ opts = NoOpts
  /\ keyIdx = null
  /\ retryIdx = null
  /\ calls = <<>>
  /\ output = <<>>
  /\ exitCode = "none"
  /\ inv = 0
  /\ startFile = disk
  /\ loaded = DefaultState
  /\ lookup = "none"
  /\ origin = EmptyCache
  /\ selLog = NoSel
  /\ run = <<>>
  /\ runStart = [state |-> DefaultState, now |-> 0]
  /\ ops = 0
  /\ last = NoLast
  /\ procs = NoProcs
  /\ saved = {}
  /\ pair = NoPair

\* UsesCache without the opts.noCache test
UsesCache_IgnoresNoCache(o) == o.command \in {"search", "find"}

\* whether the command consults the cache: search and findSimilar do unless
\* opts.noCache; answer does not
UsesCache(o) == o.command \in {"search", "find"} /\ ~o.noCache

\* cacheDir(): fs.mkdirSync throws, outside the try blocks of cacheRead and
\* cacheWrite
cacheDirThrows(f) == f = "mkdir"

\* cacheRead in a directory whose condition is f: statSync throwing inside
\* the try block gives null
cacheReadUnder(f, store, key, ttlMinutes, t) ==
  IF f = "io" THEN MISS ELSE cacheRead(store, key, ttlMinutes, t)

\* cacheWrite in a directory whose condition is f: writeFileSync throwing
\* inside the try block leaves the directory as it was
cacheWriteUnder(f, store, key, data, t) ==
  IF f = "io" THEN {store} ELSE cacheWrite(store, key, data, t)

\* conditions of the cache directory an invocation with options o can meet
CacheFaults(o) == IF UsesCache(o) THEN {"none", "mkdir", "io"} ELSE {"none"}

\* search(exa, opts) up to its first await, followed by main's
\* recordSuccess / saveKeyState when the function returned from the cache:
\* st is the in-memory state, idx the key in use, file the current state.json
CommandSync(o, st, idx, store, t, file, f) ==
  LET cached == cacheReadUnder(f, store, CommandKey(o), o.cacheTtl, t)
  IN IF UsesCache(o) /\ cacheDirThrows(f)
     THEN [pc |-> "threw", state |-> st, disk |-> file,
           output |-> ErrorOutput(MkdirError), exitCode |-> "1"]
     ELSE IF UsesCache(o) /\ cached # MISS /\ ~Decodable(cached)
     THEN [pc |-> "threw", state |-> st, disk |-> file,
           output |-> ErrorOutput(SyntaxError), exitCode |-> "1"]
     ELSE IF UsesCache(o) /\ cached # MISS
     THEN LET r == printSearchResults(o, Parse(cached))
              st2 == recordSuccess(st, idx)
          IN IF r.exit = "3"
             THEN [pc |-> "exited", state |-> st, disk |-> file,
                   output |-> r.out, exitCode |-> "3"]
             ELSE [pc |-> "exited", state |-> st2, disk |-> saveKeyState(st2),
                   output |-> r.out, exitCode |-> "0"]
     ELSE [pc |-> "await", state |-> st, disk |-> file,
           output |-> <<>>, exitCode |-> "none"]

\* an invocation that ends before any key is selected
EarlyExit(code, out, st) ==
  [pc |-> "exited", state |-> st, disk |-> disk, output |-> out,
   exitCode |-> code, keyIdx |-> null, selLog |-> selLog]

\* printKeyStatus(keys, state) at Date.now() = t: the lines it prints, as the
\* next index and, per key, its status word, the whole seconds of cooldown
\* left and its counters; a key without a record prints as a fresh one
printKeyStatus(n, st, t) ==
  <<"status",
    [nextIndex |-> st.currentIndex % n,
     keys |-> [i \in 0 .. n - 1 |->
       LET info == IF i \in DOMAIN st.keys THEN st.keys[i] ELSE DefaultRecord
           cooling == info.cooldownUntil # null /\ t < info.cooldownUntil
       IN [status |-> IF info.valid = FALSE THEN "INVALID"
                      ELSE IF cooling THEN "COOLDOWN" ELSE "READY",
           remaining |-> IF info.valid # FALSE /\ cooling
                         THEN (info.cooldownUntil - t + 999) \div 1000 ELSE 0,
           requests |-> info.requests, success |-> info.success,
           errors |-> info.errors]]]>>

\* the status command saving the state it printed
StatusCommand_SavesState(n, st, t) ==
  [EarlyExit("0", printKeyStatus(n, st, t), st)
     EXCEPT !.disk = saveKeyState(EnsureEntries(n, st))]

\* if (opts.command === "status") { printKeyStatus(keys, state);
\*   process.exit(0); }
StatusCommand(n, st, t) == EarlyExit("0", printKeyStatus(n, st, t), st)

\* main() at time t from its first line to its first await (or to its exit)
MainStart(o, t, f) ==
  LET st0 == loadKeyState(disk)
      g == getNextKey(nkeys, st0, t)
      log == [n |-> nkeys, pre |-> EnsureEntries(nkeys, st0), now |-> t,
              selected |-> g.selected]
      c == CommandSync(o, g.state, g.selected, cache, t, disk, f)
  IN IF nkeys = 0 THEN EarlyExit("2", <<"stderr", "No API key found.">>, state)
     ELSE IF o.command = "status"
          THEN IF HasKeys(st0) THEN StatusCommand(nkeys, st0, t)
               ELSE EarlyExit("crash", <<"TypeError">>, st0)
     ELSE IF o.command = "none"
          THEN EarlyExit("2", <<"stderr", "No command specified.">>, st0)
     ELSE IF o.query = NoQuery
          THEN EarlyExit("2", <<"stderr", "No query provided.">>, st0)
     ELSE IF ~HasKeys(st0) THEN EarlyExit("crash", <<"TypeError">>, st0)
     ELSE IF g.selected = null
          THEN [EarlyExit("2", <<"stderr", "No valid API keys available.">>, g.state)
                  EXCEPT !.selLog = log]
     ELSE [pc |-> IF c.pc = "await" THEN "call1" ELSE "exited",
           state |-> c.state, disk |-> c.disk, output |-> c.output,
           exitCode |-> c.exitCode, keyIdx |-> g.selected, selLog |-> log]

\* the claim-independent reading of "an unexpired entry exists"
Fresh(store, key, ttlMinutes, t) ==
  key \in DOMAIN store /\ t - store[key].mtime <= ttlMinutes * MS_PER_MINUTE

\* what the invocation's cache lookup will meet: a storage failure, an
\* unexpired entry, or no such entry
LookupOf(o, store, t, f) ==
  IF ~UsesCache(o) THEN "none"
  ELSE IF f # "none" THEN "failed"
  ELSE IF ~Fresh(store, CommandKey(o), o.cacheTtl, t) THEN "miss"
  ELSE IF Decodable(store[CommandKey(o)].data) THEN "fresh" ELSE "failed"

\* a process is started with options o, d ms after the previous event, the
\* cache directory being in condition f
InvokeAt(o, t, f) ==
  /\ pc = "idle"
  /\ fault' = f
  /\ LET m == MainStart(o, t, f)
     IN /\ now' = t
        /\ pc' = m.pc
        /\ state' = m.state
        /\ disk' = m.disk
        /\ output' = m.output
        /\ exitCode' = m.exitCode
        /\ keyIdx' = m.keyIdx
        /\ selLog' = m.selLog
        /\ loaded' = IF nkeys = 0 THEN loaded ELSE loadKeyState(disk)
        /\ lookup' = LookupOf(o, cache, t, f)
  /\ opts' = o
  /\ retryIdx' = null
  /\ calls' = <<>>
  /\ startFile' = disk
  /\ startCache' = cache
  /\ UNCHANGED <<nkeys, env, cache, origin>>
  /\ UNCHANGED auxVars

\* one of the MaxInv invocations, d ms after the last step
Invoke(o, d, f) ==
  /\ inv < MaxInv
  /\ inv' = inv + 1
  /\ InvokeAt(o, now + d, f)

\* what the upstream call is logged as
OutcomeOf(resp) ==
  IF resp.kind = "ok" THEN "ok"
  ELSE IF IsRateLimit(resp) THEN "rateLimited" ELSE "error"

\* the tail of search / answer after the awaited call returned a body:
\* cacheWrite (search without --no-cache), then printSearchResults; main then
\* runs recordSuccess + saveKeyState unless the print called process.exit(3)
AfterBody(o, idx, body, store2) ==
  LET r == printSearchResults(o, body)
      st2 == recordSuccess(state, idx)
  IN /\ cache' = store2
     /\ origin' = IF UsesCache(o) /\ fault = "none"
                  THEN [k \in DOMAIN store2 |->
                          IF k = CommandKey(o)
                          THEN [json |-> o.json, out |-> r.out, exit |-> r.exit,
                                body |-> body]
                          ELSE origin[k]]
                  ELSE origin
     /\ output' = r.out
     /\ pc' = "exited"
     /\ IF r.exit = "3"
        THEN /\ exitCode' = "3"
             /\ UNCHANGED <<state, disk>>
        ELSE /\ exitCode' = "0"
             /\ state' = st2
             /\ disk' = saveKeyState(st2)

\* the stores cacheWrite can leave, or the store untouched when the command
\* does not write the cache
StoresAfter(o, body, t) ==
  IF UsesCache(o)
  THEN cacheWriteUnder(fault, cache, CommandKey(o), Stringify(body), t)
  ELSE {cache}

\* the awaited call returned a body and search got through cacheWrite
Returned(o, resp) ==
  resp.kind = "ok" /\ ~(UsesCache(o) /\ cacheDirThrows(fault))

\* the first awaited call settles with resp at time t: the rest of the try
\* block, or the catch block up to the retry's await or process.exit(1)
Respond1At(resp, t) ==
  /\ pc = "call1"
  /\ LET st1 == recordRateLimit(state, keyIdx, RetryAfterArg(resp), t)
         g == getNextKey(nkeys, st1, t)
         c == CommandSync(opts, g.state, g.selected, cache, t,
                          saveKeyState(st1), fault)
         err == IF resp.kind = "ok" THEN MkdirError ELSE resp
     IN /\ now' = t
        /\ calls' = Append(calls, [idx |-> keyIdx, out |-> OutcomeOf(resp),
                                    resp |-> resp, keys |-> state.keys,
                                    at |-> t])
        /\ IF Returned(opts, resp)
           THEN /\ \E store2 \in StoresAfter(opts, resp.body, t) :
                     AfterBody(opts, keyIdx, resp.body, store2)
                /\ UNCHANGED <<retryIdx, selLog>>
           ELSE IF ~IsRateLimit(err)
           THEN /\ output' = ErrorOutput(err)
                /\ exitCode' = "1"
                /\ pc' = "exited"
                /\ UNCHANGED <<state, disk, cache, origin, retryIdx, selLog>>
           ELSE IF nkeys <= 1
           THEN /\ state' = st1
                /\ disk' = saveKeyState(st1)
                /\ output' = ErrorOutput(resp)
                /\ exitCode' = "1"
                /\ pc' = "exited"
                /\ UNCHANGED <<cache, origin, retryIdx, selLog>>
           ELSE /\ selLog' = [n |-> nkeys, pre |-> st1, now |-> t,
                              selected |-> g.selected]
                /\ retryIdx' = g.selected
                /\ UNCHANGED <<cache, origin>>
                /\ IF ShouldRetry(nkeys, g.selected, keyIdx) /\ c.pc = "threw"
                   THEN /\ pc' = "exited"
                        /\ state' = g.state
                        /\ disk' = saveKeyState(g.state)
                        /\ output' = ErrorOutput(resp)
                        /\ exitCode' = "1"
                   ELSE IF ShouldRetry(nkeys, g.selected, keyIdx)
                   THEN /\ pc' = IF c.pc = "await" THEN "call2" ELSE "exited"
                        /\ state' = c.state
                        /\ disk' = c.disk
                        /\ output' = c.output
                        /\ exitCode' = c.exitCode
                   ELSE /\ state' = g.state
                        /\ disk' = saveKeyState(st1)
                        /\ output' = ErrorOutput(resp)
                        /\ exitCode' = "1"
                        /\ pc' = "exited"
  /\ UNCHANGED <<nkeys, env, startCache, fault, opts, keyIdx, startFile, loaded,
                 lookup>>
  /\ UNCHANGED auxVars

\* the first call of one of the MaxInv invocations settles after d ms
Respond1(resp, d) == Respond1At(resp, now + d) /\ UNCHANGED inv

\* the retry's awaited call settles with resp at time t: the inner try
\* block and its catch; the error reported is err, the first call's
Respond2At(resp, t) ==
  /\ pc = "call2"
  /\ LET st1 == IF IsRateLimit(resp)
                THEN recordRateLimit(state, retryIdx, RetryAfterArg(resp), t)
                ELSE state
     IN /\ now' = t
        /\ calls' = Append(calls, [idx |-> retryIdx, out |-> OutcomeOf(resp),
                                    resp |-> resp, keys |-> state.keys,
                                    at |-> t])
        /\ IF Returned(opts, resp)
           THEN \E store2 \in StoresAfter(opts, resp.body, t) :
                  AfterBody(opts, retryIdx, resp.body, store2)
           ELSE /\ state' = st1
                /\ disk' = saveKeyState(st1)
                /\ output' = ErrorOutput(calls[1].resp)
                /\ exitCode' = "1"
                /\ pc' = "exited"
                /\ UNCHANGED <<cache, origin>>
  /\ UNCHANGED <<nkeys, env, startCache, fault, opts, keyIdx, retryIdx, startFile,
                 loaded, lookup,
                 selLog>>
  /\ UNCHANGED auxVars

\* the retry's call of one of the MaxInv invocations settles after d ms
Respond2(resp, d) == Respond2At(resp, now + d) /\ UNCHANGED inv

\* between invocations state.json is damaged: text that does not parse, or
\* JSON that parses to an object without the keys mapping
CorruptStateFile(file) ==
  /\ pc = "idle"
  /\ inv < MaxInv
  /\ disk.kind \in {"absent", "json"}
  /\ disk' = file
  /\ UNCHANGED <<nkeys, env, startCache, fault, cache, now, state, pc, opts, keyIdx,
                 retryIdx, calls,
                 output, exitCode, inv, startFile, loaded, lookup, origin, selLog>>
  /\ UNCHANGED auxVars

\* between invocations an entry file of the cache is damaged: its text no
\* longer parses (its modification time is the write's)
CorruptCacheEntry(key) ==
  /\ pc = "idle"
  /\ inv < MaxInv
  /\ key \in DOMAIN cache
  /\ Decodable(cache[key].data)
  /\ cache' = [cache EXCEPT ![key].data = Undecodable]
  /\ startCache' = cache'
  /\ UNCHANGED <<nkeys, env, fault, disk, now, state, pc, opts, keyIdx, retryIdx,
                 calls, output, exitCode, inv, startFile, loaded, lookup, origin,
                 selLog>>
  /\ UNCHANGED auxVars

\* while search awaits the upstream call the cache directory is lost (removed
\* and its path taken, or its parent made read-only)
CacheDirLost ==
  /\ pc \in {"call1", "call2"}
  /\ UsesCache(opts)
  /\ fault = "none"
  /\ fault' = "mkdir"
  /\ UNCHANGED <<nkeys, env, startCache, disk, cache, now, state, pc, opts,
                 keyIdx, retryIdx, calls, output, exitCode, inv, startFile,
                 loaded, lookup, origin, selLog>>
  /\ UNCHANGED auxVars

\* the process is gone: its memory, options and output with it
ProcessEnd ==
  /\ pc = "exited"
  /\ pc' = "idle"
  /\ state' = DefaultState
  /\ opts' = NoOpts
  /\ keyIdx' = null
  /\ retryIdx' = null
  /\ calls' = <<>>
  /\ output' = <<>>
  /\ exitCode' = "none"
  /\ startFile' = disk
  /\ loaded' = DefaultState
  /\ lookup' = "none"
  /\ selLog' = NoSel
  /\ startCache' = cache
  /\ fault' = "none"
  /\ UNCHANGED <<nkeys, env, disk, cache, now, inv, origin>>
  /\ UNCHANGED auxVars

Next ==
  \/ \E o \in OptsSet, d \in StartDelays : Invoke(o, d, "none")
  \/ ProcessEnd
  \/ \E resp \in Responses, d \in CallDelays : Respond1(resp, d)
  \/ \E resp \in Responses, d \in CallDelays : Respond2(resp, d)
  \/ \E file \in {FileGarbage, FileNoKeys} : CorruptStateFile(file)

Spec == Init /\ [][Next]_vars

\* ------------------------------------------------------------------------
\* SpecStore: invocations of the caching commands, search and find, over a
\* cache directory that can fail
\* ------------------------------------------------------------------------

\* the options SpecStore varies
StoreOpts ==
  [command : {"search", "find"}, query : Queries, json : {FALSE},
   noCache : BOOLEAN, cacheTtl : {DEFAULT_CACHE_TTL}]

StoreInit ==
  /\ Init
  /\ nkeys > 0
  /\ disk = FileAbsent

StoreNext ==
  \/ \E o \in StoreOpts, d \in StartDelays :
       \E f \in CacheFaults(o) : Invoke(o, d, f)
  \/ ProcessEnd
  \/ \E resp \in Responses, d \in CallDelays : Respond1(resp, d)
  \/ \E resp \in Responses, d \in CallDelays : Respond2(resp, d)
  \/ \E key \in DOMAIN cache : CorruptCacheEntry(key)
  \/ CacheDirLost

SpecStore == StoreInit /\ [][StoreNext]_vars

\* ------------------------------------------------------------------------
\* SpecSel: getNextKey called repeatedly on a drawn rotation state
\* ------------------------------------------------------------------------

\* the clock SpecSel starts at
SelStart == DEFAULT_COOLDOWN_MS

\* records a state.json can hold: usage from earlier successes, a cooldown
\* from an earlier rate limit (one that ends 1 ms after SelStart, one set
\* at SelStart), or valid: false
StartRecords ==
  {[valid |-> TRUE, cooldownUntil |-> cd, requests |-> r, success |-> r,
    errors |-> IF cd = null THEN 0 ELSE 1] :
      cd \in {null, SelStart + 1, SelStart + DEFAULT_COOLDOWN_MS},
      r \in {0, 1}}
  \cup {[DefaultRecord EXCEPT !.valid = FALSE]}

SelInit ==
  /\ nkeys \in 1 .. MaxSelKeys
  /\ \E ci \in 0 .. MaxSelKeys :
       \/ state = [currentIndex |-> ci, keys |-> EmptyKeys]
       \/ \E ks \in [0 .. nkeys - 1 -> StartRecords] :
            state = [currentIndex |-> ci, keys |-> ks]
  /\ now = SelStart
  /\ env = NoEnv
  /\ startCache = EmptyCache
  /\ fault = "none"
  /\ run = <<>>
  /\ runStart = [state |-> state, now |-> now]
  /\ ops = 0
  /\ last = NoLast
  /\ procs = NoProcs
  /\ saved = {}
  /\ pair = NoPair
  /\ cache = EmptyCache
  /\ disk = FileAbsent
  /\ pc = "idle"
  /\ opts = NoOpts
  /\ keyIdx = null
  /\ retryIdx = null
  /\ calls = <<>>
  /\ output = <<>>
  /\ exitCode = "none"
  /\ inv = 0
  /\ startFile = FileAbsent
  /\ loaded = DefaultState
  /\ lookup = "none"
  /\ origin = EmptyCache
  /\ selLog = NoSel

\* getNextKey(keys, state)
SelGetNextKey ==
  /\ ops < MaxSelOps
  /\ Len(run) <= nkeys
  /\ LET g == getNextKey(nkeys, state, now)
     IN /\ state' = g.state
        /\ last' = [op |-> "getNextKey", pre |-> EnsureEntries(nkeys, state),
                    now |-> now, selected |-> g.selected, raw |-> state]
        /\ run' = Append(run, g.selected)
        /\ runStart' = IF run = <<>> THEN [state |-> state, now |-> now]
                       ELSE runStart
  /\ ops' = ops + 1
  /\ UNCHANGED <<nkeys, now, cache>>
  /\ UNCHANGED mainVars
  /\ UNCHANGED concVars

\* the clock advances
SelTick(d) ==
  /\ ops < MaxSelOps
  /\ now' = now + d
  /\ ops' = ops + 1
  /\ UNCHANGED <<nkeys, state, cache, run, runStart, last>>
  /\ UNCHANGED mainVars
  /\ UNCHANGED concVars

SelNext ==
  \/ SelGetNextKey
  \/ \E d \in {1, DEFAULT_COOLDOWN_MS} : SelTick(d)

SpecSel == SelInit /\ [][SelNext]_vars

\* ------------------------------------------------------------------------
\* SpecCache: cacheWrite / cacheRead on a store at or near its size cap
\* ------------------------------------------------------------------------

\* payloads written to the cache
CachePayloads == {Stringify(NoResults), Stringify(SomeResults)}

\* fingerprints the operations are applied to: the oldest entries, the
\* newest one, and fingerprints not yet in the store
CacheFps ==
  {1, 2, MAX_CACHE_ENTRIES} \cup
  (MAX_CACHE_ENTRIES + 1 .. MAX_CACHE_ENTRIES + ExtraFps)

\* --cache-ttl values: a negative one, one minute, the default
ReadTtls == {-1, 1, DEFAULT_CACHE_TTL}

\* a store filled by k earlier invocations, one write per millisecond tick
FilledStore(k) ==
  [f \in 1 .. k |-> [data |-> Stringify(SomeResults), mtime |-> f]]

CacheInit ==
  /\ \E k \in MAX_CACHE_ENTRIES - MaxShort .. MAX_CACHE_ENTRIES :
       cache = FilledStore(k)
  /\ origin = cache
  /\ startCache = cache
  /\ fault = "none"
  /\ env = NoEnv
  /\ now = MAX_CACHE_ENTRIES
  /\ ops = 0
  /\ last = NoLast
  /\ procs = NoProcs
  /\ saved = {}
  /\ pair = NoPair
  /\ nkeys = 0
  /\ state = DefaultState
  /\ run = <<>>
  /\ runStart = [state |-> DefaultState, now |-> 0]
  /\ disk = FileAbsent
  /\ pc = "idle"
  /\ opts = NoOpts
  /\ keyIdx = null
  /\ retryIdx = null
  /\ calls = <<>>
  /\ output = <<>>
  /\ exitCode = "none"
  /\ inv = 0
  /\ startFile = FileAbsent
  /\ loaded = DefaultState
  /\ lookup = "none"
  /\ selLog = NoSel

\* variables SpecCache leaves alone
cacheFrame ==
  <<procs, saved, pair, nkeys, env, startCache, fault, state, run, runStart, disk, pc, opts, keyIdx, retryIdx, calls,
    output, exitCode, inv, startFile, loaded, lookup, selLog>>

\* a later invocation calls cacheWrite(key, data); origin logs, for the
\* entries still in the store, the data and time of the call that wrote them
CacheWriteOp(key, data) ==
  /\ ops < MaxCacheOps
  /\ now' = now + 1
  /\ \E store2 \in cacheWrite(cache, key, data, now + 1) :
       /\ cache' = store2
       /\ origin' = [k \in DOMAIN store2 |->
                       IF k = key THEN [data |-> data, mtime |-> now + 1]
                       ELSE origin[k]]
  /\ last' = [op |-> "cacheWrite", key |-> key, data |-> data, now |-> now + 1,
              pre |-> cache]
  /\ ops' = ops + 1
  /\ UNCHANGED cacheFrame

\* cacheRead(key, ttlMinutes)
CacheReadOp(key, ttlMinutes) ==
  /\ ops < MaxCacheOps
  /\ last' = [op |-> "cacheRead", key |-> key, ttl |-> ttlMinutes, now |-> now,
              result |-> cacheRead(cache, key, ttlMinutes, now), pre |-> cache,
              prev |-> [op |-> last.op,
                        key |-> IF last.op = "none" THEN 0 ELSE last.key,
                        now |-> IF last.op = "none" THEN 0 ELSE last.now,
                        data |-> IF last.op = "cacheWrite" THEN last.data ELSE MISS]]
  /\ cache' = cacheReadLeaves(cache, key, ttlMinutes, now)
  /\ ops' = ops + 1
  /\ UNCHANGED <<origin, now>>
  /\ UNCHANGED cacheFrame

\* time passes between invocations
CacheTick(d) ==
  /\ ops < MaxCacheOps
  /\ now' = now + d
  /\ ops' = ops + 1
  /\ UNCHANGED <<cache, origin, last>>
  /\ UNCHANGED cacheFrame

CacheNext ==
  \/ \E key \in CacheFps, data \in CachePayloads : CacheWriteOp(key, data)
  \/ \E key \in CacheFps, ttlMinutes \in ReadTtls : CacheReadOp(key, ttlMinutes)
  \/ \E d \in {1, MS_PER_MINUTE} : CacheTick(d)

SpecCache == CacheInit /\ [][CacheNext]_vars

\* ------------------------------------------------------------------------
\* SpecConc: processes that load and save state.json at the same time
\* ------------------------------------------------------------------------

\* the concurrent invocations
Procs == 1 .. MaxProcs

\* length of JSON.stringify(state, null, 2) in blocks: one for the header,
\* one per record, one more for a record whose cooldownUntil is a timestamp
\* (13 digits) instead of null
RECURSIVE TextBlocksUpTo(_, _)
TextBlocksUpTo(st, n) ==
  IF n <= 0 THEN 1
  ELSE TextBlocksUpTo(st, n - 1) +
       (IF (n - 1) \in DOMAIN st.keys
        THEN (IF st.keys[n - 1].cooldownUntil = null THEN 1 ELSE 2)
        ELSE 0)

\* the text of st as the sequence of its blocks
Bytes(st) ==
  [b \in 1 .. TextBlocksUpTo(st, MaxKeys + 1) |-> [of |-> st, at |-> b]]

\* state.json holding the blocks bs
FileWith(bs) == [kind |-> "bytes", blocks |-> bs]

\* fs.openSync(path, "w") of writeFileSync: O_CREAT | O_TRUNC
OpenTrunc(file) == FileWith(<<>>)

\* fs.writeSync of the whole buffer at offset 0 of the descriptor: what the
\* file held beyond the buffer's length stays
WriteAtZero(file, bs) ==
  FileWith([b \in 1 .. (IF Len(file.blocks) > Len(bs) THEN Len(file.blocks)
                          ELSE Len(bs)) |->
              IF b <= Len(bs) THEN bs[b] ELSE file.blocks[b]])

\* what readFileSync + JSON.parse make of the file: the text of one state
\* parses to that state; an empty file, a truncated text, or a text followed
\* by the tail of another make JSON.parse throw
ReadFile(file) ==
  IF file.kind = "absent" THEN FileAbsent
  ELSE IF file.blocks # <<>> /\ file.blocks = Bytes(file.blocks[1].of)
       THEN saveKeyState(file.blocks[1].of)
       ELSE FileGarbage

\* a process before main() runs
NewProc == [pc |-> "start", state |-> DefaultState, observed |-> FileAbsent,
            keyIdx |-> null]

ConcInit ==
  /\ env \in {[EXA_API_KEYS |-> MultiOf(n), EXA_API_KEY |-> <<>>] :
                n \in 1 .. MaxKeys}
  /\ nkeys = Len(loadKeysFromEnv(env))
  /\ procs = [p \in Procs |-> NewProc]
  /\ saved = {}
  /\ pair = NoPair
  /\ disk = FileAbsent
  /\ now = 1
  /\ cache = EmptyCache
  /\ startCache = EmptyCache
  /\ fault = "none"
  /\ state = DefaultState
  /\ pc = "idle"
  /\ opts = NoOpts
  /\ keyIdx = null
  /\ retryIdx = null
  /\ calls = <<>>
  /\ output = <<>>
  /\ exitCode = "none"
  /\ inv = 0
  /\ startFile = FileAbsent
  /\ loaded = DefaultState
  /\ lookup = "none"
  /\ origin = EmptyCache
  /\ selLog = NoSel
  /\ run = <<>>
  /\ runStart = [state |-> DefaultState, now |-> 0]
  /\ ops = 0
  /\ last = NoLast

\* variables SpecConc leaves alone
concFrame ==
  <<nkeys, env, startCache, fault, cache, now, state, pc, opts, keyIdx,
    retryIdx, calls, output, exitCode, inv, startFile, loaded, lookup, origin,
    selLog, run, runStart, ops, last, pair>>

\* process p runs main() up to its await: loadKeyState, getNextKey
ConcLoad(p) ==
  /\ procs[p].pc = "start"
  /\ LET g == getNextKey(nkeys, loadKeyState(ReadFile(disk)), now)
     IN procs' = [procs EXCEPT ![p] = [pc |-> "call", state |-> g.state,
                                       observed |-> disk,
                                       keyIdx |-> g.selected]]
  /\ UNCHANGED <<disk, saved>>
  /\ UNCHANGED concFrame

\* p's awaited call settles: recordSuccess or recordRateLimit, then
\* saveKeyState as far as writeFileSync's open
ConcSettle(p, ok) ==
  /\ procs[p].pc = "call"
  /\ LET st == IF ok THEN recordSuccess(procs[p].state, procs[p].keyIdx)
               ELSE recordRateLimit(procs[p].state, procs[p].keyIdx, null, now)
     IN procs' = [procs EXCEPT ![p].pc = "write", ![p].state = st]
  /\ disk' = OpenTrunc(disk)
  /\ UNCHANGED saved
  /\ UNCHANGED concFrame

\* writeFileSync's write of the text and close
ConcWrite(p) ==
  /\ procs[p].pc = "write"
  /\ disk' = WriteAtZero(disk, Bytes(procs[p].state))
  /\ saved' = saved \cup {procs[p].state}
  /\ procs' = [procs EXCEPT ![p].pc = "done"]
  /\ UNCHANGED concFrame

ConcNext ==
  \/ \E p \in Procs : ConcLoad(p)
  \/ \E p \in Procs, ok \in BOOLEAN : ConcSettle(p, ok)
  \/ \E p \in Procs : ConcWrite(p)

SpecConc == ConcInit /\ [][ConcNext]_vars

\* ------------------------------------------------------------------------
\* SpecRace: invocations that read and write the cache directory at the
\* same time, one file system call per step
\* ------------------------------------------------------------------------

\* length of JSON.stringify(results) in pages of the page cache: a body
\* with no results fits one, a body with results (titles, urls, text) spans
\* two; write(2) copies a buffer page by page and a concurrent read is not
\* held back until the copy ends
PayloadPages(data) == IF Parse(data) = NoResults THEN 1 ELSE 2

\* the text of data as the sequence of its pages
Pages(data) == [b \in 1 .. PayloadPages(data) |-> [of |-> data, at |-> b]]

\* the file after page b of a buffer is written at its offset; a page no
\* write has filled (the file was truncated under the writer) is a hole
WritePage(blocks, b, page) ==
  [i \in 1 .. (IF Len(blocks) > b THEN Len(blocks) ELSE b) |->
     IF i = b THEN page
     ELSE IF i <= Len(blocks) THEN blocks[i] ELSE [hole |-> TRUE]]

\* JSON.parse(cached) of a non-empty text: the whole text of one payload
\* parses to it, anything else throws a SyntaxError
ParseText(blocks) ==
  IF "of" \in DOMAIN blocks[1] /\ blocks = Pages(blocks[1].of)
  THEN blocks[1].of ELSE SyntaxError

\* a directory filled by k earlier invocations, one write per millisecond
FilledPages(k) ==
  [f \in 1 .. k |-> [data |-> Pages(Stringify(SomeResults)), mtime |-> f]]

\* files.sort((a, b) => a.mtime - b.mtime).slice(0, k) over the names the
\* listing returned; every write of the specification happens at its own
\* millisecond, so no two files have the same mtime
RECURSIVE SortedOldest(_, _, _)
SortedOldest(names, store, k) ==
  IF k <= 0 \/ names = {} THEN <<>>
  ELSE LET f == CHOOSE f \in names :
                  \A g \in names : store[f].mtime <= store[g].mtime
       IN <<f>> \o SortedOldest(names \ {f}, store, k - 1)

\* fingerprints the concurrent invocations use: not yet in the directory
RaceFps == {MAX_CACHE_ENTRIES + 1, MAX_CACHE_ENTRIES + 2}

\* an invocation at its cacheWrite(key, data), or at its cacheRead(key, ttl)
RaceRoles ==
  {[role |-> "writer", key |-> k, data |-> d, pc |-> "open", at |-> 0,
    names |-> {}, victims |-> <<>>, threw |-> FALSE, result |-> MISS] :
      k \in RaceFps, d \in CachePayloads}
  \cup {[role |-> "reader", key |-> MAX_CACHE_ENTRIES + 1,
         data |-> Stringify(NoResults), pc |-> "rstat", at |-> 0,
         names |-> {}, victims |-> <<>>, threw |-> FALSE, result |-> MISS]}

RaceInit ==
  /\ procs \in [Procs -> RaceRoles]
  /\ \E k \in MAX_CACHE_ENTRIES - MaxShort .. MAX_CACHE_ENTRIES :
       cache = FilledPages(k)
  /\ now = MAX_CACHE_ENTRIES + 1
  /\ startCache = cache
  /\ origin = EmptyCache
  /\ saved = {}
  /\ pair = NoPair
  /\ env = NoEnv
  /\ nkeys = 0
  /\ fault = "none"
  /\ disk = FileAbsent
  /\ state = DefaultState
  /\ pc = "idle"
  /\ opts = NoOpts
  /\ keyIdx = null
  /\ retryIdx = null
  /\ calls = <<>>
  /\ output = <<>>
  /\ exitCode = "none"
  /\ inv = 0
  /\ startFile = FileAbsent
  /\ loaded = DefaultState
  /\ lookup = "none"
  /\ selLog = NoSel
  /\ run = <<>>
  /\ runStart = [state |-> DefaultState, now |-> 0]
  /\ ops = 0
  /\ last = NoLast

\* variables SpecRace leaves alone
raceFrame ==
  <<nkeys, env, startCache, fault, disk, state, pc, opts, keyIdx, retryIdx,
    calls, output, exitCode, inv, startFile, loaded, lookup, origin, selLog,
    run, runStart, ops, last, saved, pair>>

\* cacheWrite: fs.writeFileSync opens the entry file with O_CREAT | O_TRUNC
RaceOpen(p) ==
  /\ procs[p].pc = "open"
  /\ cache' = WriteFile(cache, procs[p].key, <<>>, now)
  /\ now' = now + 1
  /\ procs' = [procs EXCEPT ![p].pc = "write"]
  /\ UNCHANGED raceFrame

\* cacheWrite: the next page of the payload reaches the file (a file
\* unlinked meanwhile takes the page without reappearing in the directory)
RaceWrite(p) ==
  /\ procs[p].pc = "write"
  /\ LET b == procs[p].at + 1
         key == procs[p].key
     IN /\ cache' = IF key \in DOMAIN cache
                    THEN WriteFile(cache, key,
                                   WritePage(cache[key].data, b,
                                             Pages(procs[p].data)[b]), now)
                    ELSE cache
        /\ procs' = [procs EXCEPT
                       ![p].at = b,
                       ![p].pc = IF b = PayloadPages(procs[p].data)
                                 THEN "list" ELSE "write"]
  /\ now' = now + 1
  /\ UNCHANGED raceFrame

\* cacheWrite: fs.readdirSync(dir).filter(...)
RaceList(p) ==
  /\ procs[p].pc = "list"
  /\ procs' = [procs EXCEPT ![p].pc = "stat", ![p].names = DOMAIN cache]
  /\ UNCHANGED <<cache, now>>
  /\ UNCHANGED raceFrame

\* cacheWrite: .map(f => fs.statSync(...)).sort(...) and the length test;
\* statSync of a name that is gone throws into the empty catch
RaceStat(p) ==
  /\ procs[p].pc = "stat"
  /\ LET names == procs[p].names
         excess == Cardinality(names) - MAX_CACHE_ENTRIES
         victims == SortedOldest(names, cache, excess)
     IN procs' =
          IF ~(names \subseteq DOMAIN cache)
          THEN [procs EXCEPT ![p].pc = "done", ![p].threw = TRUE]
          ELSE [procs EXCEPT ![p].victims = victims,
                             ![p].pc = IF victims = <<>> THEN "done"
                                       ELSE "unlink"]
  /\ UNCHANGED <<cache, now>>
  /\ UNCHANGED raceFrame

\* cacheWrite: one fs.unlinkSync of the forEach; on a name that is gone it
\* throws into the empty catch and the rest of the forEach is not run
RaceUnlink(p) ==
  /\ procs[p].pc = "unlink"
  /\ LET f == Head(procs[p].victims)
         rest == Tail(procs[p].victims)
     IN IF f \notin DOMAIN cache
        THEN /\ procs' = [procs EXCEPT ![p].pc = "done", ![p].threw = TRUE]
             /\ UNCHANGED cache
        ELSE /\ cache' = Unlink(cache, f)
             /\ procs' = [procs EXCEPT ![p].victims = rest,
                                       ![p].pc = IF rest = <<>> THEN "done"
                                                 ELSE "unlink"]
  /\ UNCHANGED now
  /\ UNCHANGED raceFrame

\* cacheRead: fs.statSync and the TTL test (default TTL)
RaceReadStat(p) ==
  /\ procs[p].pc = "rstat"
  /\ procs' =
       IF procs[p].key \notin DOMAIN cache
            \/ now - cache[procs[p].key].mtime
                 > DEFAULT_CACHE_TTL * 60 * 1000
       THEN [procs EXCEPT ![p].pc = "done", ![p].result = MISS]
       ELSE [procs EXCEPT ![p].pc = "read"]
  /\ UNCHANGED <<cache, now>>
  /\ UNCHANGED raceFrame

\* cacheRead: fs.readFileSync, then search's `if (cached)` and
\* JSON.parse(cached): an empty text is falsy and counts as a miss
RaceRead(p) ==
  /\ procs[p].pc = "read"
  /\ LET key == procs[p].key
         text == cache[key].data
     IN procs' =
          [procs EXCEPT
             ![p].pc = "done",
             ![p].result = IF key \notin DOMAIN cache \/ text = <<>> THEN MISS
                           ELSE ParseText(text)]
  /\ UNCHANGED <<cache, now>>
  /\ UNCHANGED raceFrame

RaceNext ==
  \/ \E p \in Procs : RaceOpen(p)
  \/ \E p \in Procs : RaceWrite(p)
  \/ \E p \in Procs : RaceList(p)
  \/ \E p \in Procs : RaceStat(p)
  \/ \E p \in Procs : RaceUnlink(p)
  \/ \E p \in Procs : RaceReadStat(p)
  \/ \E p \in Procs : RaceRead(p)

SpecRace == RaceInit /\ [][RaceNext]_vars

\* ------------------------------------------------------------------------
\* SpecKey: the cache key and the upstream request of two invocations
\* ------------------------------------------------------------------------

\* characters of option values: a letter and the separator of cacheKey
Alphabet == {"a", "|"}

\* the texts of 1 to n characters
Texts(n) == UNION {[1 .. k -> Alphabet] : k \in 1 .. n}

\* options of a search: --category and --domain with drawn values,
\* --content, --highlights and --verbosity given or not
SearchFlags ==
  [command : {"search"}, query : Queries, num : {5}, type : {"instant"},
   content : BOOLEAN, category : {NoText} \cup Texts(MaxFieldLen),
   domain : {NoText} \cup Texts(1), after : {NoText}, before : {NoText},
   maxAge : {null}, highlights : {null, 2000},
   verbosity : {NoText, <<"compact">>}]

\* options of a find: the ones findSimilar reads
FindFlags ==
  [command : {"find"}, query : Queries, num : {5}, type : {"instant"},
   content : BOOLEAN, category : {NoText}, domain : {NoText},
   after : {NoText}, before : {NoText}, maxAge : {null},
   highlights : {null, 2000}, verbosity : {NoText, <<"compact">>}]

\* the array the command of r passes to cacheKey, and what it sends
PartsOf(r) == IF r.command = "find" THEN FindParts(r) ELSE SearchParts(r)
RequestOf(r) == IF r.command = "find" THEN FindRequest(r) ELSE SearchRequest(r)

KeyInit ==
  /\ pair \in (SearchFlags \cup FindFlags) \X (SearchFlags \cup FindFlags)
  /\ last = NoLast
  /\ ops = 0
  /\ procs = NoProcs
  /\ saved = {}
  /\ cache = EmptyCache
  /\ startCache = EmptyCache
  /\ origin = EmptyCache
  /\ now = 1
  /\ env = NoEnv
  /\ nkeys = 0
  /\ fault = "none"
  /\ disk = FileAbsent
  /\ state = DefaultState
  /\ pc = "idle"
  /\ opts = NoOpts
  /\ keyIdx = null
  /\ retryIdx = null
  /\ calls = <<>>
  /\ output = <<>>
  /\ exitCode = "none"
  /\ inv = 0
  /\ startFile = FileAbsent
  /\ loaded = DefaultState
  /\ lookup = "none"
  /\ selLog = NoSel
  /\ run = <<>>
  /\ runStart = [state |-> DefaultState, now |-> 0]

\* both invocations compute their cache key and build their request
KeyApply ==
  /\ last.op = "none"
  /\ last' = [op |-> "cacheKey",
              parts |-> <<PartsOf(pair[1]), PartsOf(pair[2])>>,
              keys |-> <<cacheKey(PartsOf(pair[1])), cacheKey(PartsOf(pair[2]))>>,
              requests |-> <<RequestOf(pair[1]), RequestOf(pair[2])>>]
  /\ ops' = ops + 1
  /\ UNCHANGED <<nkeys, env, startCache, fault, disk, cache, now, state, pc,
                 opts, keyIdx, retryIdx, calls, output, exitCode, inv,
                 startFile, loaded, lookup, origin, selLog, run, runStart,
                 procs, saved, pair>>

SpecKey == KeyInit /\ [][KeyApply]_vars

\* ------------------------------------------------------------------------
\* SpecLive: invocations that keep coming, each one run to its end
\* ------------------------------------------------------------------------

\* command lines that select a key and call the upstream whatever the
\* cache holds: a search with a query and --no-cache
LiveOpts ==
  {o \in OptsSet : o.command = "search" /\ o.query # NoQuery /\ o.noCache}

\* a pool of keys and no state.json: the default rotation state
LiveInit == Init /\ nkeys > 0 /\ disk = FileAbsent

\* a time no cooldownUntil of the first MaxInv invocations exceeds: each of
\* them starts at most DEFAULT_COOLDOWN_MS after the last step and sets a
\* cooldown of at most DEFAULT_COOLDOWN_MS. The later invocations run at
\* this time, which for getNextKey stands for every later time
LiveHorizon == (MaxInv + 2) * DEFAULT_COOLDOWN_MS

\* the answers after which main writes neither state (process.exit(3) in
\* printSearchResults, or the catch block's exit for a non-429 error)
Unrecorded(o, resp) ==
  IF resp.kind = "ok" THEN printSearchResults(o, resp.body).exit = "3"
  ELSE ~IsRateLimit(resp)

\* the next invocation starts; the ones past the first MaxInv are counted
\* as one more (inv = MaxInv + 1)
LiveInvoke(o, d) ==
  /\ inv' = IF inv <= MaxInv THEN inv + 1 ELSE inv
  /\ InvokeAt(o, IF inv < MaxInv THEN now + d ELSE LiveHorizon, "none")

\* the awaited call settles; past the first MaxInv invocations only with
\* an answer that leaves the counters as they are
LiveRespond1(resp, d) ==
  /\ inv > MaxInv => Unrecorded(opts, resp)
  /\ Respond1At(resp, IF inv > MaxInv THEN LiveHorizon ELSE now + d)
  /\ UNCHANGED inv

LiveRespond2(resp, d) ==
  /\ inv <= MaxInv
  /\ Respond2At(resp, now + d)
  /\ UNCHANGED inv

LiveNext ==
  \/ \E o \in LiveOpts, d \in StartDelays : LiveInvoke(o, d)
  \/ ProcessEnd
  \/ \E resp \in Responses, d \in CallDelays : LiveRespond1(resp, d)
  \/ \E resp \in Responses, d \in CallDelays : LiveRespond2(resp, d)

\* the next invocation is started, every awaited call settles (the client
\* times out otherwise) and every process ends; which answer the upstream
\* gives is not constrained
SpecLive == LiveInit /\ [][LiveNext]_vars /\ WF_vars(LiveNext)

\* ------------------------------------------------------------------------
\* Properties
\* ------------------------------------------------------------------------

OnCooldown(st, i, t) ==
  /\ i \in DOMAIN st.keys
  /\ st.keys[i].cooldownUntil # null
  /\ t < st.keys[i].cooldownUntil

\* the valid indices of a pool of n keys
ValidIn(n, st) == {i \in 0 .. n - 1 : st.keys[i].valid}

WriteTime(pre, key, t, f) == IF f = key THEN t ELSE pre[f].mtime

\* C4: the store never holds more than 50 entries, and when a write exceeded
\* the cap the entries kept are the 50 written last, data and write time intact.
C4_CapAndMostRecent ==
  /\ Cardinality(DOMAIN cache) <= 50
  /\ last.op = "cacheWrite" =>
       LET all == (DOMAIN last.pre) \cup {last.key}
       IN /\ DOMAIN cache \subseteq all
          /\ Cardinality(all) <= 50 => DOMAIN cache = all
          /\ Cardinality(all) > 50 =>
               /\ Cardinality(DOMAIN cache) = 50
               /\ \A e \in all \ DOMAIN cache, r \in DOMAIN cache :
                    WriteTime(last.pre, last.key, last.now, e)
                      < WriteTime(last.pre, last.key, last.now, r)
          /\ \A r \in DOMAIN cache :
               /\ cache[r].mtime = WriteTime(last.pre, last.key, last.now, r)
               /\ cache[r].data = IF r = last.key THEN last.data ELSE last.pre[r].data

C4_Witness ==
  /\ last.op = "cacheWrite"
  /\ Cardinality((DOMAIN last.pre) \cup {last.key}) > 50
  /\ last.key \in DOMAIN cache
  /\ 1 \notin DOMAIN cache

\* C5: cacheRead(F, T) of an entry written by cacheWrite(F, P) returns P
\* while the entry's age is at most T minutes and MISS once it is older; a
\* read that directly follows the write always finds the entry.
C5_ReadAfterWrite ==
  last.op = "cacheRead" =>
    /\ last.key \in DOMAIN origin =>
         IF last.now - origin[last.key].mtime <= last.ttl * MS_PER_MINUTE
         THEN last.result = origin[last.key].data
         ELSE last.result = MISS
    /\ (last.prev.op = "cacheWrite" /\ last.prev.key = last.key) =>
         IF last.now - last.prev.now <= last.ttl * MS_PER_MINUTE
         THEN last.result = last.prev.data
         ELSE last.result = MISS

C5_Witness ==
  /\ last.op = "cacheRead"
  /\ last.key \in DOMAIN origin
  /\ last.now - origin[last.key].mtime = last.ttl * MS_PER_MINUTE
  /\ last.result = origin[last.key].data
  /\ last.result # MISS

\* C6 as stated: pool [A, B], no state.json, A rate-limited on the first
\* call and B successful on the retry: the saved state has
\* A = {requests 1, errors 1, cooldownUntil set}, B = {requests 1, success 1}.
C6_RetryScenarioCounters ==
  ( /\ pc = "exited"
    /\ nkeys = 2
    /\ startFile = FileAbsent
    /\ exitCode = "0"
    /\ Len(calls) = 2
    /\ calls[1].idx = 0
    /\ calls[1].resp.kind = "err"
    /\ calls[1].resp.status = 429
    /\ calls[2].idx = 1
    /\ calls[2].resp.kind = "ok" )
  => /\ disk.kind = "json"
     /\ disk.text.keys[0].requests = 1
     /\ disk.text.keys[0].errors = 1
     /\ disk.text.keys[0].cooldownUntil # null
     /\ disk.text.keys[1].requests = 1
     /\ disk.text.keys[1].success = 1

\* C7 as stated: every record of the saved state and of the state in memory
\* has errors <= requests and success <= requests.
C7_CountersBounded ==
  /\ disk.kind = "json" =>
       \A i \in DOMAIN disk.text.keys :
         /\ disk.text.keys[i].errors <= disk.text.keys[i].requests
         /\ disk.text.keys[i].success <= disk.text.keys[i].requests
  /\ HasKeys(state) =>
       \A i \in DOMAIN state.keys :
         /\ state.keys[i].errors <= state.keys[i].requests
         /\ state.keys[i].success <= state.keys[i].requests

\* the run started with every key of the pool valid, off cooldown and unused
RunFromZeroUsage ==
  \A i \in (DOMAIN runStart.state.keys) \cap (0 .. nkeys - 1) :
    /\ runStart.state.keys[i].valid
    /\ runStart.state.keys[i].requests = 0
    /\ ~OnCooldown(runStart.state, i, runStart.now)

\* C8: from N valid, available, unused keys, up to N consecutive getNextKey
\* calls with no recordSuccess / recordRateLimit in between return pairwise
\* different indices, and N calls return all N.
C8_RoundRobinVisitsAll ==
  (run # <<>> /\ RunFromZeroUsage /\ Len(run) <= nkeys) =>
    /\ \A a, b \in 1 .. Len(run) : a # b => run[a] # run[b]
    /\ \A a \in 1 .. Len(run) : run[a] \in 0 .. nkeys - 1
    /\ Len(run) = nkeys => {run[a] : a \in 1 .. Len(run)} = 0 .. nkeys - 1

C8_Witness ==
  /\ RunFromZeroUsage
  /\ nkeys = 3
  /\ Len(run) = nkeys
  /\ runStart.state.currentIndex = 2
  /\ run = <<2, 0, 1>>

\* C9 as stated: when an invocation that selected a key ends in failure,
\* state.json holds the state the process had in memory.
C9_SavedBeforeFailure ==
  (pc = "exited" /\ exitCode = "1") => disk = saveKeyState(state)

\* C10 as stated: an invocation that finds state.json corrupted (unparseable,
\* or JSON without the keys mapping) does not crash and works from the
\* default state.
C10_CorruptFileGivesDefault ==
  (pc # "idle" /\ nkeys > 0 /\ startFile.kind \in {"garbage", "nokeys"})
    => (exitCode # "crash" /\ loaded = DefaultState)

\* neither EXA_API_KEYS nor EXA_API_KEY holds a character of a credential
NoCredential(e) ==
  /\ \A i \in 1 .. Len(e.EXA_API_KEYS) : e.EXA_API_KEYS[i] \in {" ", ","}
  /\ \A i \in 1 .. Len(e.EXA_API_KEY) : e.EXA_API_KEY[i] = " "

\* C11: with no credential configured an invocation never reaches an upstream
\* call; it ends with exit code 2 and the no-key message, and state.json and
\* the cache directory are as it found them.
C11_NoKeysFailsEarly ==
  NoCredential(env) =>
    /\ pc \in {"idle", "exited"}
    /\ calls = <<>>
    /\ pc = "exited" =>
         /\ exitCode = "2"
         /\ output = <<"stderr", "No API key found.">>
         /\ disk = startFile
         /\ cache = startCache

C11_Witness ==
  /\ NoCredential(env)
  /\ env.EXA_API_KEYS # <<>>
  /\ pc = "exited"
  /\ opts.command = "search"
  /\ opts.query # NoQuery
  /\ startFile.kind = "garbage"
  /\ exitCode = "2"

\* C12 as stated: an invocation that found an unexpired entry for its search
\* selects no key, and the rotation state in memory and in state.json is
\* what it was when the invocation started.
C12_CacheHitSkipsCredentials ==
  (lookup = "fresh" /\ pc = "exited") =>
    /\ keyIdx = null
    /\ state = loaded
    /\ disk = startFile

\* C13 as stated: an upstream failure whose HTTP status is not 429 is the
\* invocation's last call, the invocation fails at once, and no record's
\* counters or cooldown differ from what they were when the call settled.
C13_OtherFailureNotRetried ==
  \A i \in 1 .. Len(calls) :
    (calls[i].resp.kind = "err" /\ calls[i].resp.status # 429) =>
      /\ i = Len(calls)
      /\ pc = "exited"
      /\ exitCode = "1"
      /\ state.keys = calls[i].keys

\* C14 as stated: a search whose cache lookup met a storage failure (the
\* directory cannot be created, the entry cannot be read or decoded) goes on
\* to the upstream call; and once an upstream call of a caching search has
\* returned a body, that body is rendered and the invocation does not fail,
\* whatever happens to the cache write.
C14_CacheFailureHarmless ==
  /\ (lookup = "failed" /\ keyIdx # null /\ pc = "exited") => calls # <<>>
  /\ (pc = "exited" /\ UsesCache(opts) /\ calls # <<>>
        /\ calls[Len(calls)].resp.kind = "ok") =>
       /\ output = printSearchResults(opts, calls[Len(calls)].resp.body).out
       /\ exitCode # "1"

\* C15 as stated: what a loadKeyState read from state.json is either no
\* file or the whole text written by one saveKeyState.
C15_LoadsSeeWholeSaves ==
  \A p \in DOMAIN procs :
    procs[p].pc # "start" =>
      \/ procs[p].observed = FileAbsent
      \/ \E st \in saved : procs[p].observed = FileWith(Bytes(st))

\* the cooldown window the claim gives a rate-limited answer
CooldownWindow(resp) ==
  IF resp.retryAfterMs # null THEN resp.retryAfterMs ELSE DEFAULT_COOLDOWN_MS

\* C16 as stated: after an upstream call answered 429 at time t, the record
\* of the key used has cooldownUntil = t + W, W being the answer's
\* Retry-After when it carries one and 60 s otherwise.
C16_CooldownFromRetryHint ==
  \A i \in 1 .. Len(calls) :
    (calls[i].resp.kind = "err" /\ calls[i].resp.status = 429) =>
      state.keys[calls[i].idx].cooldownUntil
        = calls[i].at + CooldownWindow(calls[i].resp)

\* record r carries no cooldown and no usage
Cleared(r) ==
  r.cooldownUntil = null /\ r.requests = 0 /\ r.success = 0 /\ r.errors = 0

\* C17 as stated: after `exa reset` has run on a saved rotation state, every
\* record of state.json has no cooldown and zero counters, and the records
\* are those of the same keys.
C17_ResetClearsRecords ==
  (pc = "exited" /\ opts = parseArgs(ResetArgs) /\ nkeys > 0
     /\ startFile.kind = "json") =>
    /\ disk.kind = "json"
    /\ DOMAIN disk.text.keys = DOMAIN startFile.text.keys
    /\ \A i \in DOMAIN disk.text.keys : Cleared(disk.text.keys[i])

\* C18 as stated: when the invocation's last upstream call returned a body
\* (an empty result list included), by the time it ends the record of the
\* key used has requests and success one higher than when the call
\* settled, no cooldown, and state.json holds the state in memory.
C18_SuccessRecorded ==
  (pc = "exited" /\ calls # <<>> /\ calls[Len(calls)].resp.kind = "ok") =>
    LET c == calls[Len(calls)]
    IN /\ state.keys[c.idx].requests = c.keys[c.idx].requests + 1
       /\ state.keys[c.idx].success = c.keys[c.idx].success + 1
       /\ state.keys[c.idx].cooldownUntil = null
       /\ disk = saveKeyState(state)

\* C19: an invocation with --no-cache leaves the cache directory as it found
\* it (entries, their data and write times), and once it has selected a key
\* it calls the upstream, whether or not an unexpired entry for its
\* fingerprint exists.
C19_NoCacheBypassesStore ==
  (opts.noCache /\ pc # "idle") =>
    /\ cache = startCache
    /\ (pc = "exited" /\ keyIdx # null) => calls # <<>>

C19_Witness ==
  /\ opts.noCache
  /\ opts.command = "find"
  /\ pc = "exited"
  /\ Fresh(startCache, CommandKey(opts), opts.cacheTtl, now)
  /\ Decodable(startCache[CommandKey(opts)].data)
  /\ Len(calls) = 1
  /\ calls[1].resp.kind = "ok"
  /\ calls[1].resp.body # Parse(startCache[CommandKey(opts)].data)
  /\ cache = startCache

\* C20: an invocation of status makes no upstream call and leaves
\* state.json and the cache directory as it found them.
C20_StatusReadOnly ==
  (opts.command = "status" /\ pc # "idle") =>
    /\ pc = "exited"
    /\ calls = <<>>
    /\ disk = startFile
    /\ cache = startCache

C20_Witness ==
  /\ opts.command = "status"
  /\ pc = "exited"
  /\ exitCode = "0"
  /\ cache # EmptyCache
  /\ disk.kind = "json"
  /\ \E i, j \in 0 .. nkeys - 1 :
       /\ output[2].keys[i].status = "COOLDOWN"
       /\ output[2].keys[i].remaining = 60
       /\ output[2].keys[i].errors = 1
       /\ output[2].keys[j].status = "READY"
       /\ output[2].keys[j].success = 1

\* the valid indices of a pool of n keys that are off cooldown at time t
OffCooldown(n, st, t) == {i \in ValidIn(n, st) : ~OnCooldown(st, i, t)}

\* the number of steps from currentIndex mod n forward round the pool to i
ScanDistance(n, st, i) == (i + n - (st.currentIndex % n)) % n

\* C23: when a valid key is off cooldown, getNextKey returns the key off
\* cooldown with the fewest requests, and of several with that fewest the
\* one met first scanning forward round the pool from currentIndex mod n.
C23_LeastUsedFirstMet ==
  (last.op = "getNextKey" /\ OffCooldown(nkeys, last.pre, last.now) # {}) =>
    /\ last.selected \in OffCooldown(nkeys, last.pre, last.now)
    /\ \A j \in OffCooldown(nkeys, last.pre, last.now) :
         /\ last.pre.keys[last.selected].requests <= last.pre.keys[j].requests
         /\ last.pre.keys[j].requests = last.pre.keys[last.selected].requests
              => ScanDistance(nkeys, last.pre, last.selected)
                   <= ScanDistance(nkeys, last.pre, j)

C23_Witness ==
  /\ last.op = "getNextKey"
  /\ nkeys = MaxSelKeys
  /\ last.selected \in OffCooldown(nkeys, last.pre, last.now)
  /\ ScanDistance(nkeys, last.pre, last.selected) > 0
  /\ \E j, k \in OffCooldown(nkeys, last.pre, last.now) :
       /\ j < last.selected
       /\ last.pre.keys[j].requests = last.pre.keys[last.selected].requests
       /\ ScanDistance(nkeys, last.pre, k)
            < ScanDistance(nkeys, last.pre, last.selected)
       /\ last.pre.keys[k].requests > last.pre.keys[last.selected].requests

C25_AdvancesPastSelected ==
  (last.op = "getNextKey" /\ last.selected # null) =>
    /\ state.currentIndex = (last.selected + 1) % nkeys
    /\ DOMAIN state.keys = (DOMAIN last.raw.keys) \cup (0 .. nkeys - 1)
    /\ \A i \in DOMAIN last.raw.keys : state.keys[i] = last.raw.keys[i]
    /\ \A i \in (DOMAIN state.keys) \ (DOMAIN last.raw.keys) :
         state.keys[i] = DefaultRecord

C25_Witness ==
  /\ last.op = "getNextKey"
  /\ nkeys = MaxSelKeys
  /\ OffCooldown(nkeys, last.pre, last.now) = {}
  /\ last.selected = nkeys - 1
  /\ last.raw.currentIndex = 1
  /\ state.currentIndex = 0
  /\ \E i \in DOMAIN state.keys : state.keys[i].requests > 0

\* C26: getNextKey returns null exactly when no key of the pool is valid,
\* and otherwise the index of a valid key; an invocation that got null
\* ends with an error, having made no upstream call and no second attempt.
C26_NullIffNoneValid ==
  selLog.n > 0 =>
    /\ selLog.selected = null <=> ValidIn(selLog.n, selLog.pre) = {}
    /\ selLog.selected # null => selLog.selected \in ValidIn(selLog.n, selLog.pre)
    /\ selLog.selected = null =>
         /\ pc = "exited"
         /\ exitCode = "2"
         /\ output = <<"stderr", "No valid API keys available.">>
         /\ calls = <<>>
         /\ retryIdx = null

C26_Witness ==
  /\ selLog.n = MaxKeys
  /\ selLog.selected = null
  /\ ValidIn(selLog.n, selLog.pre) = {}
  /\ pc = "exited"
  /\ opts.command = "search"
  /\ opts.query # NoQuery
  /\ calls = <<>>

\* C27: reading an entry older than the TTL gives MISS and leaves the entry
\* in the directory with the write time it had; no read removes an entry.
C27_ExpiryIsPassive ==
  last.op = "cacheRead" =>
    /\ DOMAIN cache = DOMAIN last.pre
    /\ (/\ last.key \in DOMAIN last.pre
        /\ last.now - last.pre[last.key].mtime > last.ttl * MS_PER_MINUTE) =>
         /\ last.result = MISS
         /\ cache[last.key] = last.pre[last.key]

C27_Witness ==
  /\ last.op = "cacheRead"
  /\ last.ttl = 1
  /\ last.key \in DOMAIN last.pre
  /\ last.now - last.pre[last.key].mtime > last.ttl * MS_PER_MINUTE
  /\ last.result = MISS
  /\ last.key \in DOMAIN cache
  /\ Cardinality(DOMAIN cache) = MAX_CACHE_ENTRIES

\* a rotation state no rate limit has touched: every record is valid, has
\* no cooldown and counts no error (errors are only ever added to)
NeverLimited(st) ==
  \A i \in DOMAIN st.keys :
    /\ st.keys[i].valid
    /\ st.keys[i].cooldownUntil = null
    /\ st.keys[i].errors = 0

\* C30: from the default state and with a fixed pool, as long as no call
\* has been rate-limited, the requests counters saved in state.json differ
\* by at most 1 between any two keys.
C30_UsageBalanced ==
  (disk.kind = "json" /\ NeverLimited(disk.text)) =>
    \A i, j \in DOMAIN disk.text.keys :
      disk.text.keys[i].requests - disk.text.keys[j].requests <= 1

C30_Witness ==
  /\ disk.kind = "json"
  /\ NeverLimited(disk.text)
  /\ nkeys = MaxKeys
  /\ inv = MaxInv
  /\ pc = "exited"
  /\ calls # <<>>
  /\ DOMAIN disk.text.keys = 0 .. nkeys - 1
  /\ \A i \in DOMAIN disk.text.keys : disk.text.keys[i].requests = 1

\* the processes of SpecRace that ran cacheWrite
Writers == {p \in DOMAIN procs : procs[p].role = "writer"}

\* C21 as stated: when two invocations write different fingerprints at the
\* same time, each completes its eviction pass and, once both have
\* finished, the directory holds at most 50 entries.
C21_WritersNeverConflict ==
  ( /\ Writers = DOMAIN procs
    /\ \A p \in Writers : procs[p].pc = "done"
    /\ \A p, q \in Writers : p # q => procs[p].key # procs[q].key ) =>
    /\ \A p \in Writers : ~procs[p].threw
    /\ Cardinality(DOMAIN cache) <= MAX_CACHE_ENTRIES

\* C22 as stated: an invocation that reads a fingerprint while another
\* writes it gets MISS or the whole payload of a writer; it never gets part
\* of a payload and never fails.
C22_ReaderSeesWholeOrMiss ==
  \A p \in DOMAIN procs :
    (procs[p].role = "reader" /\ procs[p].pc = "done") =>
      \/ procs[p].result = MISS
      \/ \E q \in Writers : /\ procs[q].key = procs[p].key
                            /\ procs[p].result = procs[q].data

\* C28 as stated: two arrays of the same command that differ in a field
\* are never joined into the same text, also when field values contain the
\* separator.
C28_JoinUnambiguous ==
  ( /\ last.op = "cacheKey"
    /\ pair[1].command = pair[2].command
    /\ last.parts[1] # last.parts[2] ) =>
    JoinParts(last.parts[1]) # JoinParts(last.parts[2])

\* C29 as stated: two search or find invocations whose upstream requests
\* differ (the contents setting included) never have the same cache key.
C29_KeyCoversRequest ==
  (last.op = "cacheKey" /\ last.requests[1] # last.requests[2]) =>
    last.keys[1] # last.keys[2]

\* C31 as stated: no key is excluded forever; as invocations keep coming
\* and the clock advances, every key of the pool is eventually returned by
\* getNextKey.
C31_EveryKeySelected ==
  \A i \in 0 .. MaxKeys - 1 :
    <>(i < nkeys => (selLog.n > 0 /\ selLog.selected = i))

====
